---- MODULE Spec2Model ----
(***************************************************************************)
(* Interest-capture and notification logic of CoffeeCoreSite.tsx: the      *)
(* "fake door" modal (handleFakeDoor, the close button, the modal email    *)
(* form) and the contact form, each event handler and each continuation    *)
(* after `await fetch(...)` being one atomic step of the single-threaded   *)
(* event loop.                                                             *)
(*                                                                         *)
(* Left out of the request body: `ts` (a clock reading) and the contact    *)
(* form's `name` and `msg` free text; no handler reads them back.          *)
(***************************************************************************)
EXTENDS FiniteSets, Integers, Sequences, TLC

\* Total number of fetch() calls a behaviour may issue.
MaxRequests == 3

\* The same, for the behaviours checked under fairness.
MaxLiveRequests == 2

\* Number of jumpAndHighlight calls a behaviour may make.
MaxJumps == 3

\* Number of fetch() and jumpAndHighlight calls, counted together, in a
\* behaviour that mixes the forms, the modal and the navigator.
MaxSiteEvents == 2

\* Delay of the highlight's cleanup timer in ms, line 95.
HighlightDelay == 1000

\* Clock steps the model takes per HighlightDelay.
TicksPerDelay == 2

\* JavaScript null.
NULL == "null"

\* ids of the product catalog (useMemo, lines 47-87).
products == {"polifenoli", "pellet", "bevande", "oli-cosmesi"}

\* p.name of the product with id p.
ProductName(p) ==
  CASE p = "polifenoli"  -> "Polifenoli & Bioattivi (upcycled)"
    [] p = "pellet"      -> "Pellet da scarti di caffè"
    [] p = "bevande"     -> "Bevande con bioattivi aggiunti"
    [] p = "oli-cosmesi" -> "Oli per la cosmesi"

\* Values typed in an email input (type=email, required: never empty).
Emails == {"a@b.com", "c@d.org"}

\* res.ok true, res.ok false, fetch() rejected.
Outcomes == {"Delivered", "Rejected", "TransportFailed"}

\* The three places that call fetch("/api/notify").
Origins == {"fakeDoor", "modalForm", "contact"}

VARIABLES
  open,            \* useState(false), line 20
  clickedProduct,  \* useState(null), line 21: id of the product or NULL
  submitting,      \* useState(false), line 22
  submitMsg,       \* useState(null), line 23
  inflight,        \* fetch() promises not yet settled, with their closures
  nextId,          \* number of fetch() calls issued so far
  mailto,          \* mail-compose action opened by the step in `last`, or NoMail
  alertMsg,        \* alert() shown by the step in `last`, or NULL
  last,            \* the form or modal handler or continuation that ran latest
  msgReq,          \* the request whose continuation set the current submitMsg
  highlighted,     \* ids of the sections whose classList holds "cc-highlight"
  timers,          \* pending setTimeout callbacks, in the order they were set
  scrolledTo,      \* id of the section scrollIntoView was last called on, or NULL
  lastJump,        \* the latest jumpAndHighlight call: its argument, its age in
                   \* ms, and whether it threw
  nJumps           \* number of jumpAndHighlight calls so far

formVars == <<open, clickedProduct, submitting, submitMsg, inflight, nextId,
              mailto, alertMsg, last, msgReq>>

navVars == <<highlighted, timers, scrolledTo, lastJump, nJumps>>

vars == <<formVars, navVars>>

\* ids of the page's sections, lines 197, 219, 247, 280, 295.
Sections == {"mission", "process", "prodotti", "cta", "contatti"}

\* Arguments jumpAndHighlight is called with: the one of line 288, the id of
\* another section, and one that no element carries.
JumpIds == {"contatti", "prodotti", "nonexistent"}

\* A pending fetch: the JSON body it carries and the handler that awaits it.
\* `product` is p.id (line 109), clickedProduct.id of the render the form
\* handler closed over (line 378), or the sentinel "contact" (line 311).
Request(id, origin, product, email) ==
  [id |-> id, origin |-> origin, product |-> product, email |-> email]

NoRequest == [id |-> 0, origin |-> NULL, product |-> NULL, email |-> NULL]

\* No mail-compose action.
NoMail == [address |-> NULL, subject |-> <<>>, body |-> <<>>]

\* The UI surface a request belongs to.
Surface(r) == IF r.origin = "contact" THEN "contact" ELSE "modal"

Event(kind, req, outcome) == [kind |-> kind, req |-> req, outcome |-> outcome]

Init ==
  /\ open = FALSE
  /\ clickedProduct = NULL
  /\ submitting = FALSE
  /\ submitMsg = NULL
  /\ inflight = {}
  /\ nextId = 0
  /\ mailto = NoMail
  /\ alertMsg = NULL
  /\ last = Event("init", NoRequest, NULL)
  /\ msgReq = NoRequest
  /\ highlighted = {}
  /\ timers = <<>>
  /\ scrolledTo = NULL
  /\ lastJump = [id |-> NULL, age |-> HighlightDelay, threw |-> FALSE]
  /\ nJumps = 0

\* ------------------------------------------------------------------------
\* Pieces of the handlers, as functions of the state they read.

\* setSubmitMsg(...) on res.ok: line 115-117 (handleFakeDoor), 381 (form).
ConfirmMsg(origin) ==
  IF origin = "fakeDoor"
    THEN "Grazie! Abbiamo registrato il tuo interesse e avvisato l'amministratore."
    ELSE "Perfetto! Ti avviseremo appena disponibile."

\* alert(...) of the contact form, line 314.
ContactAlert == "Grazie! Ti ricontatteremo al più presto."

\* p.name as the sequence of its characters.
ProductNameChars(p) ==
  CASE p = "polifenoli" ->
        <<"P", "o", "l", "i", "f", "e", "n", "o", "l", "i", " ", "&", " ",
          "B", "i", "o", "a", "t", "t", "i", "v", "i", " ", "(", "u", "p",
          "c", "y", "c", "l", "e", "d", ")">>
    [] p = "pellet" ->
        <<"P", "e", "l", "l", "e", "t", " ", "d", "a", " ", "s", "c", "a",
          "r", "t", "i", " ", "d", "i", " ", "c", "a", "f", "f", "è">>
    [] p = "bevande" ->
        <<"B", "e", "v", "a", "n", "d", "e", " ", "c", "o", "n", " ", "b",
          "i", "o", "a", "t", "t", "i", "v", "i", " ", "a", "g", "g", "i",
          "u", "n", "t", "i">>
    [] p = "oli-cosmesi" ->
        <<"O", "l", "i", " ", "p", "e", "r", " ", "l", "a", " ", "c", "o",
          "s", "m", "e", "s", "i">>

\* The characters of the template literal before ${clickedProduct.name}, line 389.
SubjectPrefix ==
  <<"I", "n", "t", "e", "r", "e", "s", "s", "e", ":", " ">>

\* The characters of the body text, line 390.
BodyText ==
  <<"V", "o", "r", "r", "e", "i", " ", "s", "a", "p", "e", "r", "n", "e",
    " ", "d", "i", " ", "p", "i", "ù", " ", "s", "u", " ", "q", "u", "e",
    "s", "t", "o", " ", "p", "r", "o", "d", "o", "t", "t", "o", " ", "q",
    "u", "a", "n", "d", "o", " ", "s", "a", "r", "à", " ", "p", "r", "o",
    "n", "t", "o", ".">>

\* The characters encodeURIComponent leaves as they are.
Unreserved ==
  {"A", "B", "C", "D", "E", "F", "G", "H", "I", "J", "K", "L", "M", "N",
   "O", "P", "Q", "R", "S", "T", "U", "V", "W", "X", "Y", "Z", "a", "b",
   "c", "d", "e", "f", "g", "h", "i", "j", "k", "l", "m", "n", "o", "p",
   "q", "r", "s", "t", "u", "v", "w", "x", "y", "z", "0", "1", "2", "3",
   "4", "5", "6", "7", "8", "9", "-", "_", ".", "!", "~", "*", "'", "(",
   ")"}

\* The other characters these texts and ASCII punctuation can hold, each with
\* the %XX escapes of its UTF-8 bytes.
PercentCode(c) ==
  CASE c = " " -> <<"%", "2", "0">>
    [] c = ":" -> <<"%", "3", "A">>
    [] c = "&" -> <<"%", "2", "6">>
    [] c = "è" -> <<"%", "C", "3", "%", "A", "8">>
    [] c = "ù" -> <<"%", "C", "3", "%", "B", "9">>
    [] c = "à" -> <<"%", "C", "3", "%", "A", "0">>
    [] c = "#" -> <<"%", "2", "3">>
    [] c = "$" -> <<"%", "2", "4">>
    [] c = "%" -> <<"%", "2", "5">>
    [] c = "+" -> <<"%", "2", "B">>
    [] c = "," -> <<"%", "2", "C">>
    [] c = "/" -> <<"%", "2", "F">>
    [] c = ";" -> <<"%", "3", "B">>
    [] c = "<" -> <<"%", "3", "C">>
    [] c = "=" -> <<"%", "3", "D">>
    [] c = ">" -> <<"%", "3", "E">>
    [] c = "?" -> <<"%", "3", "F">>
    [] c = "@" -> <<"%", "4", "0">>
    [] c = "[" -> <<"%", "5", "B">>
    [] c = "]" -> <<"%", "5", "D">>
    [] c = "^" -> <<"%", "5", "E">>
    [] c = "{" -> <<"%", "7", "B">>
    [] c = "|" -> <<"%", "7", "C">>
    [] c = "}" -> <<"%", "7", "D">>

Escaped ==
  {" ", ":", "&", "è", "ù", "à", "#", "$", "%", "+", ",", "/", ";", "<", "=",
   ">", "?", "@", "[", "]", "^", "{", "|", "}"}

\* encodeURIComponent, character by character.
RECURSIVE EncodeURIComponent(_)
EncodeURIComponent(str) ==
  IF str = <<>> THEN <<>>
  ELSE (IF Head(str) \in Unreserved THEN <<Head(str)>> ELSE PercentCode(Head(str)))
         \o EncodeURIComponent(Tail(str))

\* The subject with the product name left out of the template.
EncodedSubject_NoName(p) == EncodeURIComponent(SubjectPrefix)

\* encodeURIComponent(`Interesse: ${clickedProduct.name}`), line 389.
EncodedSubject(p) ==
  EncodeURIComponent(SubjectPrefix \o ProductNameChars(p))

\* encodeURIComponent of the fixed body text, line 390.
EncodedBody == EncodeURIComponent(BodyText)

\* The address the mailto is sent to, line 391.
AdminContact == "admin@coffeecore.example"

\* window.location.href = `mailto:...?subject=...&body=...`, line 391.
MailtoAction(p) ==
  [address |-> AdminContact,
   subject |-> EncodedSubject(p),
   body    |-> EncodedBody]

\* handleFakeDoor with setClickedProduct(p) left out.
FakeDoorState_NoTarget(p) ==
  [open |-> TRUE, clickedProduct |-> clickedProduct, submitting |-> TRUE,
   submitMsg |-> NULL]

\* handleFakeDoor with setSubmitMsg(null) left out.
FakeDoorState_KeepsMsg(p) ==
  [open |-> TRUE, clickedProduct |-> p, submitting |-> TRUE, submitMsg |-> submitMsg]

\* The four setState calls that open handleFakeDoor, lines 99-102.
FakeDoorState(p) ==
  [open |-> TRUE, clickedProduct |-> p, submitting |-> TRUE, submitMsg |-> NULL]

\* The close button also doing setClickedProduct(null).
CloseState_ClearsTarget ==
  [open |-> FALSE, clickedProduct |-> NULL]

\* setOpen(false), line 360: nothing else is set.
CloseState ==
  [open |-> FALSE, clickedProduct |-> clickedProduct]

\* The form handler with setSubmitting(true) left out.
FormBeginState_NoSubmitting ==
  [submitting |-> submitting, submitMsg |-> NULL]

\* The form handler with setSubmitMsg(null) left out.
FormBeginState_KeepsMsg ==
  [submitting |-> TRUE, submitMsg |-> submitMsg]

\* setSubmitting(true); setSubmitMsg(null), lines 372-373.
FormBeginState ==
  [submitting |-> TRUE, submitMsg |-> NULL]

\* The try block with the success branch not calling setSubmitMsg.
TryBlock_NoConfirm(origin, outcome, msg) ==
  CASE outcome = "TransportFailed" -> [submitMsg |-> msg, thrown |-> TRUE]
    [] outcome = "Delivered"       -> [submitMsg |-> msg, thrown |-> FALSE]
    [] outcome = "Rejected"        -> [submitMsg |-> NULL, thrown |-> TRUE]

\* The try block with the `throw` of the else branch left out.
TryBlock_NoThrow(origin, outcome, msg) ==
  CASE outcome = "TransportFailed" -> [submitMsg |-> msg, thrown |-> TRUE]
    [] outcome = "Delivered"       -> [submitMsg |-> ConfirmMsg(origin), thrown |-> FALSE]
    [] outcome = "Rejected"        -> [submitMsg |-> NULL, thrown |-> FALSE]

\* The try block after the await (lines 105-121, 375-385) for a request of
\* `origin` settling with `outcome`, submitMsg being msg when it starts:
\* the submitMsg it leaves and whether control passes to the catch block.
TryBlock(origin, outcome, msg) ==
  CASE outcome = "TransportFailed" -> [submitMsg |-> msg, thrown |-> TRUE]
    [] outcome = "Delivered"       -> [submitMsg |-> ConfirmMsg(origin), thrown |-> FALSE]
    [] outcome = "Rejected"        -> [submitMsg |-> NULL, thrown |-> TRUE]

\* A catch block that reads the product from the current state instead of
\* from the render the handler closed over.
CatchBlock_CurrentTarget(r) ==
  [submitMsg |-> NULL,
   mailto    |-> IF r.origin = "modalForm" THEN MailtoAction(clickedProduct) ELSE NoMail]

\* The catch block: lines 122-124 (handleFakeDoor: setSubmitMsg(null) only)
\* and 386-391 (modal form: setSubmitMsg(null), then the mailto).
CatchBlock(r) ==
  [submitMsg |-> NULL,
   mailto    |-> IF r.origin = "modalForm" THEN MailtoAction(r.product) ELSE NoMail]

\* A finally block that leaves `submitting` as it is.
FinallyBlock_Keeps == submitting

\* setSubmitting(false) in the finally block, lines 125-127 and 392-394.
FinallyBlock == FALSE

\* The rest of handleFakeDoor or of the modal form's onSubmit after its await,
\* for request r: try, then catch if the try threw, then finally.
Continuation(r, outcome, msg) ==
  LET t == TryBlock(r.origin, outcome, msg)
      c == IF t.thrown THEN CatchBlock(r)
                       ELSE [submitMsg |-> t.submitMsg, mailto |-> NoMail]
  IN  [submitMsg |-> c.submitMsg, mailto |-> c.mailto, submitting |-> FinallyBlock]

\* A contact-form continuation that ends the modal's submission.
ContactCatch_ResetsSubmitting(outcome) ==
  [submitMsg |-> submitMsg, mailto |-> NoMail, submitting |-> FALSE]

\* `.catch(() => {})` of the contact form, line 312: a rejection is swallowed,
\* a response is not read, no state is set.
ContactCatch(outcome) ==
  [submitMsg |-> submitMsg, mailto |-> NoMail, submitting |-> submitting]

\* A continuation that sends the request again when it failed.
Reissued_RetryOnFailure(r, outcome) ==
  IF outcome \in {"Rejected", "TransportFailed"} /\ nextId < MaxRequests
    THEN {[r EXCEPT !.id = nextId + 1]}
    ELSE {}

\* The fetch() calls made by what runs when request r settles: none, neither
\* in the catch and finally blocks (lines 114-127, 380-394) nor in
\* `.catch(() => {})` (line 312).
Reissued(r, outcome) == {}

\* What the settling of request r with `outcome` leaves in the component.
Settled(r, outcome) ==
  IF r.origin = "contact" THEN ContactCatch(outcome)
                          ELSE Continuation(r, outcome, submitMsg)

\* ------------------------------------------------------------------------
\* Event handlers.

\* onClick of a product's call-to-action, lines 98-113 up to the await.
handleFakeDoor(p) ==
  /\ nextId < MaxRequests
  /\ LET s == FakeDoorState(p)
         r == Request(nextId + 1, "fakeDoor", p, "info@coffeecore.it")
     IN  /\ open' = s.open
         /\ clickedProduct' = s.clickedProduct
         /\ submitting' = s.submitting
         /\ submitMsg' = s.submitMsg
         /\ inflight' = inflight \cup {r}
         /\ nextId' = nextId + 1
         /\ last' = Event("fakeDoor", r, NULL)
  /\ msgReq' = NoRequest
  /\ mailto' = NoMail
  /\ alertMsg' = NULL
  /\ UNCHANGED navVars

\* onClick of the modal's close button, line 360; the button exists only
\* while the modal is rendered (line 352).
closeModal ==
  /\ open /\ clickedProduct # NULL
  /\ open' = CloseState.open
  /\ clickedProduct' = CloseState.clickedProduct
  /\ last' = Event("close", NoRequest, NULL)
  /\ mailto' = NoMail
  /\ alertMsg' = NULL
  /\ UNCHANGED <<submitting, submitMsg, inflight, nextId, msgReq>>
  /\ UNCHANGED navVars

\* onSubmit of the modal email form, lines 368-379 up to the await; the form
\* exists only while the modal is rendered and its button is disabled while
\* submitting (line 399).
modalFormSubmit(email) ==
  /\ open /\ clickedProduct # NULL
  /\ ~submitting
  /\ nextId < MaxRequests
  /\ LET r == Request(nextId + 1, "modalForm", clickedProduct, email)
     IN  /\ submitting' = FormBeginState.submitting
         /\ submitMsg' = FormBeginState.submitMsg
         /\ inflight' = inflight \cup {r}
         /\ nextId' = nextId + 1
         /\ last' = Event("modalSubmit", r, NULL)
  /\ msgReq' = NoRequest
  /\ mailto' = NoMail
  /\ alertMsg' = NULL
  /\ UNCHANGED <<open, clickedProduct>>
  /\ UNCHANGED navVars

\* onSubmit of the contact form, lines 302-315: the fetch is not awaited.
contactFormSubmit(email) ==
  /\ nextId < MaxRequests
  /\ LET r == Request(nextId + 1, "contact", "contact", email)
     IN  /\ inflight' = inflight \cup {r}
         /\ nextId' = nextId + 1
         /\ last' = Event("contactSubmit", r, NULL)
  /\ alertMsg' = ContactAlert
  /\ mailto' = NoMail
  /\ UNCHANGED <<open, clickedProduct, submitting, submitMsg, msgReq>>
  /\ UNCHANGED navVars

\* A fetch settles and what was chained on it runs: for the modal surface the
\* rest of the async handler (lines 114-127, 380-394), for the contact form
\* `.catch(() => {})` (line 312).
fetchSettles(r, outcome) ==
  /\ r \in inflight
  /\ LET c == Settled(r, outcome)
     IN  /\ submitMsg' = c.submitMsg
         /\ submitting' = c.submitting
         /\ mailto' = c.mailto
         /\ msgReq' = IF c.submitMsg = NULL THEN NoRequest
                      ELSE IF Surface(r) = "modal" THEN r ELSE msgReq
  /\ inflight' = (inflight \ {r}) \cup Reissued(r, outcome)
  /\ nextId' = nextId + Cardinality(Reissued(r, outcome))
  /\ last' = Event("settle", r, outcome)
  /\ alertMsg' = NULL
  /\ UNCHANGED <<open, clickedProduct>>
  /\ UNCHANGED navVars

\* ------------------------------------------------------------------------
\* Scroll-and-highlight navigator, lines 89-96.

\* Length of one clock step in ms.
TickMs == HighlightDelay \div TicksPerDelay

\* document.getElementById(id), line 90: the element, or null.
GetElementById(id) == IF id \in Sections THEN id ELSE NULL

\* jumpAndHighlight without the early return of line 91: on null,
\* el.scrollIntoView throws a TypeError before anything is changed.
JumpState_NoGuard(id) ==
  LET el == GetElementById(id)
  IN  IF el = NULL
        THEN [scrolledTo |-> scrolledTo, highlighted |-> highlighted,
              timers |-> timers, threw |-> TRUE]
        ELSE [scrolledTo  |-> el,
              highlighted |-> highlighted \cup {el},
              timers      |-> Append(timers, [el |-> el, left |-> HighlightDelay]),
              threw       |-> FALSE]

\* jumpAndHighlight without the setTimeout call of line 95.
JumpState_NoTimer(id) ==
  LET el == GetElementById(id)
  IN  IF el = NULL
        THEN [scrolledTo |-> scrolledTo, highlighted |-> highlighted,
              timers |-> timers, threw |-> FALSE]
        ELSE [scrolledTo |-> el, highlighted |-> highlighted \cup {el},
              timers |-> timers, threw |-> FALSE]

\* What jumpAndHighlight(id) leaves, lines 90-95: nothing new when no element
\* has the id (the early return of line 91); else the element scrolled to,
\* the class added (classList.add of a class already there changes nothing)
\* and one more timer set. No statement of it can throw.
JumpState(id) ==
  LET el == GetElementById(id)
  IN  IF el = NULL
        THEN [scrolledTo |-> scrolledTo, highlighted |-> highlighted,
              timers |-> timers, threw |-> FALSE]
        ELSE [scrolledTo  |-> el,
              highlighted |-> highlighted \cup {el},
              timers      |-> Append(timers, [el |-> el, left |-> HighlightDelay]),
              threw       |-> FALSE]

\* The timer callback of line 95: el.classList.remove("cc-highlight").
TimerCallback(el) == highlighted \ {el}

Min(a, b) == IF a < b THEN a ELSE b

Max(a, b) == IF a > b THEN a ELSE b

\* A call of jumpAndHighlight(id), lines 89-96.
jumpAndHighlight(id) ==
  /\ nJumps < MaxJumps
  /\ scrolledTo' = JumpState(id).scrolledTo
  /\ highlighted' = JumpState(id).highlighted
  /\ timers' = JumpState(id).timers
  /\ lastJump' = [id |-> id, age |-> 0, threw |-> JumpState(id).threw]
  /\ nJumps' = nJumps + 1
  /\ UNCHANGED formVars

\* TickMs pass. The delay of setTimeout is a minimum: time also passes while
\* a callback is due and the event loop has not run it yet. The clock of a
\* timer stops at 0 (due) and the age of the latest call at HighlightDelay.
tick ==
  /\ timers' = [i \in 1..Len(timers) |->
                  [timers[i] EXCEPT !.left = Max(0, timers[i].left - TickMs)]]
  /\ lastJump' = [lastJump EXCEPT !.age = Min(HighlightDelay, lastJump.age + TickMs)]
  /\ UNCHANGED <<highlighted, scrolledTo, nJumps>>
  /\ UNCHANGED formVars

\* The event loop runs the callback of a timer that is due. All timers have
\* the same delay, so the one set first is due first and runs first.
timerFires ==
  /\ timers # <<>>
  /\ Head(timers).left = 0
  /\ highlighted' = TimerCallback(Head(timers).el)
  /\ timers' = Tail(timers)
  /\ UNCHANGED <<scrolledTo, lastJump, nJumps>>
  /\ UNCHANGED formVars

NavNext ==
  \/ \E id \in JumpIds : jumpAndHighlight(id)
  \/ tick
  \/ timerFires

NavSpec == Init /\ [][NavNext]_vars

\* The clock advances and due timers run.
NavFairness == WF_vars(tick) /\ WF_vars(timerFires)

NavLiveSpec == NavSpec /\ NavFairness

Next ==
  \/ \E p \in products : handleFakeDoor(p)
  \/ closeModal
  \/ \E email \in Emails : modalFormSubmit(email)
  \/ \E email \in Emails : contactFormSubmit(email)
  \/ \E r \in inflight, outcome \in Outcomes : fetchSettles(r, outcome)

Spec == Init /\ [][Next]_vars

\* ------------------------------------------------------------------------
TypeOK ==
  /\ open \in BOOLEAN
  /\ clickedProduct \in products \cup {NULL}
  /\ submitting \in BOOLEAN
  /\ nextId \in 0..MaxRequests
  /\ \A r \in inflight : r.id \in 1..nextId /\ r.origin \in Origins

\* The endpoint eventually answers or fails: every pending fetch settles.
Fairness ==
  \A id \in 1..MaxLiveRequests :
    WF_vars(\E r \in inflight, outcome \in Outcomes :
              r.id = id /\ fetchSettles(r, outcome))

\* The same handlers, with at most MaxLiveRequests fetch() calls.
LiveNext ==
  \/ \E p \in products : nextId < MaxLiveRequests /\ handleFakeDoor(p)
  \/ closeModal
  \/ \E email \in Emails : nextId < MaxLiveRequests /\ modalFormSubmit(email)
  \/ \E email \in Emails : nextId < MaxLiveRequests /\ contactFormSubmit(email)
  \/ \E r \in inflight, outcome \in Outcomes : fetchSettles(r, outcome)

LiveSpec == Init /\ [][LiveNext]_vars /\ Fairness

\* All handlers of the page together, with at most MaxSiteEvents fetch() and
\* jumpAndHighlight calls in all.
SiteNext ==
  \/ \E p \in products : nextId + nJumps < MaxSiteEvents /\ handleFakeDoor(p)
  \/ closeModal
  \/ \E email \in Emails : nextId + nJumps < MaxSiteEvents /\ modalFormSubmit(email)
  \/ \E email \in Emails : nextId + nJumps < MaxSiteEvents /\ contactFormSubmit(email)
  \/ \E r \in inflight, outcome \in Outcomes : fetchSettles(r, outcome)
  \/ \E id \in JumpIds : nextId + nJumps < MaxSiteEvents /\ jumpAndHighlight(id)
  \/ tick
  \/ timerFires

SiteSpec == Init /\ [][SiteNext]_vars

\* ------------------------------------------------------------------------
\* Properties.

Failed(outcome) == outcome \in {"Rejected", "TransportFailed"}

Pending(id) == \E r \in inflight : r.id = id

\* The unsettled requests of a surface.
InFlightOf(s) == {r \in inflight : Surface(r) = s}

\* A step of one of the two handlers that begin a modal-surface submission.
ModalBegin ==
  \/ \E p \in products : handleFakeDoor(p)
  \/ \E email \in Emails : modalFormSubmit(email)

\* A step of the contact form's submit handler.
ContactBegin == \E email \in Emails : contactFormSubmit(email)

\* A step in which some fetch settles.
SomeSettle == \E r \in inflight, outcome \in Outcomes : fetchSettles(r, outcome)

\* The modal surface rests: not submitting, nothing pending.
Resting == ~submitting /\ InFlightOf("modal") = {}

\* C1: whenever a modal-surface request (begun by the call-to-action click or
\* by the modal form) has just settled as Rejected or TransportFailed, a
\* mail-compose action has been surfaced and no confirmation message is set.
C1_FailureEndsDegraded ==
  (last.kind = "settle" /\ Surface(last.req) = "modal" /\ Failed(last.outcome))
    => (mailto # NoMail /\ submitMsg = NULL)

\* C2: a confirmation message visible while the modal targets a product was
\* set by a submission for that same product; the response to a submission
\* begun for another product never sets the message shown for this one.
C2_NoStaleMessage ==
  (open /\ submitMsg # NULL) => msgReq.product = clickedProduct

\* C3: each surface has at most one unsettled request at any time.
C3_OneInFlight ==
  \A s \in {"modal", "contact"} :
    Cardinality({r \in inflight : Surface(r) = s}) <= 1

\* C4: whenever the modal is open it has a target product.
C4_OpenImpliesTarget ==
  open => clickedProduct # NULL

C4_Witness ==
  /\ open /\ clickedProduct = "bevande"
  /\ last.kind = "settle" /\ last.req.product = "pellet"

\* C5 (as stated): right after a call-to-action click the modal is open on the
\* clicked product, the surface is not submitting and shows no message.
C5_OpenResetsToIdle ==
  last.kind = "fakeDoor"
    => /\ open /\ clickedProduct = last.req.product
       /\ ~submitting /\ submitMsg = NULL

\* C5 (amended): right after a call-to-action click the modal is open on the
\* clicked product, shows no message, and the surface is submitting the
\* request that the click itself issued for that product.
C5_OpenBeginsSubmission ==
  last.kind = "fakeDoor"
    => /\ open /\ clickedProduct = last.req.product
       /\ submitting /\ submitMsg = NULL
       /\ last.req \in inflight /\ last.req.origin = "fakeDoor"

C5_Witness ==
  /\ last.kind = "fakeDoor" /\ last.req.id = 3
  /\ open /\ clickedProduct = "oli-cosmesi" /\ submitting
  /\ Cardinality(inflight) = 1

\* C6: whenever a modal-surface request has just settled as Delivered, a
\* non-empty confirmation message is set, the surface is no longer
\* submitting, and no mail-compose action was produced.
C6_DeliveredSucceeds ==
  (last.kind = "settle" /\ Surface(last.req) = "modal" /\ last.outcome = "Delivered")
    => /\ submitMsg # NULL /\ submitMsg # ""
       /\ submitMsg = ConfirmMsg(last.req.origin)
       /\ ~submitting
       /\ mailto = NoMail

C6_Witness ==
  /\ last.kind = "settle" /\ last.outcome = "Delivered"
  /\ last.req.origin = "modalForm" /\ last.req.product = "pellet"
  /\ submitMsg = "Perfetto! Ti avviseremo appena disponibile."

\* C7: on the contact form a success confirmation is shown only by a step
\* that observed a Delivered outcome, and a request that has just settled as
\* Rejected or TransportFailed is followed by a mail-compose action.
C7_ContactConfirmsOnlyDelivered ==
  /\ alertMsg # NULL => (last.kind = "settle" /\ last.outcome = "Delivered")
  /\ (last.kind = "settle" /\ Surface(last.req) = "contact" /\ Failed(last.outcome))
       => mailto # NoMail

\* C8 (as stated): right after the close button the modal is closed and has
\* no target product.
C8_CloseClearsTarget ==
  last.kind = "close" => (~open /\ clickedProduct = NULL)

\* C8 (amended): the close button closes the modal and leaves the target
\* product as it was, which is a product and not none.
C8_CloseKeepsTarget ==
  [][closeModal => (~open' /\ clickedProduct' = clickedProduct
                           /\ clickedProduct' \in products)]_vars

C8_Witness ==
  /\ last.kind = "close" /\ ~open /\ clickedProduct = "pellet"
  /\ inflight # {}

\* C9: if every pending fetch eventually settles, a surface that is
\* submitting eventually stops submitting and every request that is pending
\* eventually is not, whether or not the modal is closed meanwhile.
C9_CompletesDespiteClose ==
  /\ submitting ~> ~submitting
  /\ \A id \in 1..MaxLiveRequests : Pending(id) ~> ~Pending(id)

C9_Witness ==
  /\ last.kind = "settle" /\ Surface(last.req) = "modal"
  /\ ~open /\ ~submitting /\ inflight = {}
  /\ submitMsg # NULL

\* C10: for every pending request, settling as Rejected and settling as
\* TransportFailed leave the same submitting flag, the same confirmation
\* message and the same mail-compose action.
C10_FailuresAlike ==
  \A r \in inflight : Settled(r, "Rejected") = Settled(r, "TransportFailed")

C10_Witness ==
  /\ last.kind = "settle" /\ last.outcome = "Rejected"
  /\ last.req.origin = "modalForm"
  /\ mailto = MailtoAction(last.req.product)
  /\ \E r \in inflight : r.origin = "contact"

\* C11: a step that begins a submission on a surface issues exactly one
\* request, of that surface, and no other step issues any: a settling fetch,
\* whatever its outcome, only removes its own request, so the requests sent
\* by a surface are as many as the begins it accepted.
C11_OneRequestPerBegin ==
  [][/\ ModalBegin =>
          /\ nextId' = nextId + 1
          /\ Cardinality(InFlightOf("modal")') = Cardinality(InFlightOf("modal")) + 1
          /\ InFlightOf("contact")' = InFlightOf("contact")
     /\ ContactBegin =>
          /\ nextId' = nextId + 1
          /\ Cardinality(InFlightOf("contact")') = Cardinality(InFlightOf("contact")) + 1
          /\ InFlightOf("modal")' = InFlightOf("modal")
     /\ SomeSettle => (nextId' = nextId /\ inflight' = inflight \ {last'.req})
     /\ closeModal => (nextId' = nextId /\ inflight' = inflight)]_vars

C11_Witness ==
  /\ last.kind = "settle" /\ Failed(last.outcome)
  /\ last.req.origin = "modalForm"
  /\ nextId = 2 /\ inflight = {}

\* C12: in the state right after a modal-surface begin (call-to-action click
\* or modal form submit) the surface is submitting, the message is cleared and
\* the request issued by that step is still pending, so no outcome of it has
\* been applied yet.
C12_BeginIsSynchronous ==
  last.kind \in {"fakeDoor", "modalSubmit"}
    => /\ submitting /\ submitMsg = NULL
       /\ last.req \in inflight /\ last.req.id = nextId
       /\ mailto = NoMail

C12_Witness ==
  /\ last.kind = "modalSubmit" /\ last.req.id = 3
  /\ submitting /\ inflight = {last.req}

\* C13: a begin on the modal surface at rest after earlier submissions leaves
\* what a first begin leaves (submitting, no message, one more request), and
\* when the only pending modal request settles the surface ends as if the
\* request had been the first one: by its own outcome and record alone.
C13_Reusable ==
  [][/\ (Resting /\ ModalBegin) =>
          /\ submitting' /\ submitMsg' = NULL /\ mailto' = NoMail
          /\ InFlightOf("modal")' = {last'.req}
     /\ \A outcome \in Outcomes :
          (InFlightOf("modal") = {last'.req} /\ fetchSettles(last'.req, outcome)) =>
             /\ [submitMsg |-> submitMsg', mailto |-> mailto', submitting |-> submitting']
                  = Continuation(last'.req, outcome, NULL)
             /\ Resting']_vars

C13_Witness ==
  /\ last.kind = "settle" /\ last.req.origin = "modalForm" /\ last.req.id = 3
  /\ last.outcome = "Delivered" /\ inflight = {}
  /\ submitMsg = ConfirmMsg("modalForm") /\ ~submitting

\* C17: while a request of the modal surface is unsettled the surface's
\* submitting flag is true.
C17_SubmittingWhilePending ==
  InFlightOf("modal") # {} => submitting

\* C20: when a modal form submission has just failed, the mail-compose action
\* is the one for the product whose id that request carried, whatever product
\* the modal targets by then and whether or not it is still open.
C20_FallbackNamesSentProduct ==
  (last.kind = "settle" /\ last.req.origin = "modalForm" /\ Failed(last.outcome))
    => mailto = MailtoAction(last.req.product)

C20_Witness ==
  /\ last.kind = "settle" /\ last.req.origin = "modalForm" /\ Failed(last.outcome)
  /\ clickedProduct # last.req.product
  /\ mailto.subject = EncodedSubject(last.req.product)

\* What a reader of the mailto URL gets back from an encoded component: each
\* run of %XX escapes replaced by the character it stands for.
RECURSIVE DecodeURIComponent(_)
DecodeURIComponent(str) ==
  IF str = <<>> THEN <<>>
  ELSE IF Head(str) = "%"
    THEN LET hits == {c \in Escaped :
                        /\ Len(PercentCode(c)) <= Len(str)
                        /\ SubSeq(str, 1, Len(PercentCode(c))) = PercentCode(c)}
             c == CHOOSE x \in hits : TRUE
         IN  <<c>> \o DecodeURIComponent(SubSeq(str, Len(PercentCode(c)) + 1, Len(str)))
    ELSE <<Head(str)>> \o DecodeURIComponent(Tail(str))

\* part occurs in whole as a run of consecutive characters.
Contains(whole, part) ==
  \E i \in 1..(Len(whole) - Len(part) + 1) :
    SubSeq(whole, i, i + Len(part) - 1) = part

\* C16: the mail-compose action produced for a failed submission is
\* addressed to the fixed admin contact and its subject, read back from the
\* URL, contains the display name of the product of the request's record.
C16_FallbackOfRecord ==
  (last.kind = "settle" /\ mailto # NoMail)
    => /\ mailto.address = AdminContact
       /\ Contains(DecodeURIComponent(mailto.subject),
                   ProductNameChars(last.req.product))
       /\ DecodeURIComponent(mailto.subject)
            = SubjectPrefix \o ProductNameChars(last.req.product)

C16_Witness ==
  /\ last.kind = "settle" /\ last.outcome = "TransportFailed"
  /\ last.req.product = "pellet"
  /\ mailto.address = "admin@coffeecore.example"
  /\ mailto.subject =
       <<"I", "n", "t", "e", "r", "e", "s", "s", "e", "%", "3", "A", "%", "2", "0",
         "P", "e", "l", "l", "e", "t", "%", "2", "0", "d", "a", "%", "2", "0",
         "s", "c", "a", "r", "t", "i", "%", "2", "0", "d", "i", "%", "2", "0",
         "c", "a", "f", "f", "%", "C", "3", "%", "A", "8">>

\* ------------------------------------------------------------------------
\* Properties of the navigator.

\* A step of jumpAndHighlight.
JumpStep == \E id \in JumpIds : jumpAndHighlight(id)

\* A step in which a request of the contact form settles.
ContactSettle ==
  \E r \in InFlightOf("contact"), outcome \in Outcomes : fetchSettles(r, outcome)

\* A step in which a request of the modal surface settles.
ModalSettle ==
  \E r \in InFlightOf("modal"), outcome \in Outcomes : fetchSettles(r, outcome)

\* C14: after a call of jumpAndHighlight on a section, that section keeps
\* its highlight until HighlightDelay ms have passed since the call, also
\* when an earlier call on the same section set a timer that is due sooner.
C14_SecondCallRestartsTimer ==
  (lastJump.id \in Sections /\ lastJump.age < HighlightDelay)
    => lastJump.id \in highlighted

\* C15: a call of jumpAndHighlight with an id that no element has does not
\* throw, scrolls to nothing, changes no highlight, sets no timer, and leaves
\* the modal, the submission state and the pending requests as they were.
C15_UnknownIdIsNoOp ==
  [][\A id \in JumpIds :
       (jumpAndHighlight(id) /\ GetElementById(id) = NULL)
         => /\ ~lastJump'.threw
            /\ UNCHANGED <<scrolledTo, highlighted, timers>>
            /\ UNCHANGED <<open, clickedProduct, submitting, submitMsg, inflight>>]_vars

\* A call with an unknown id was made while a highlight and its timer were
\* in place.
C15_Witness ==
  /\ lastJump.id = "nonexistent" /\ lastJump.age = 0 /\ ~lastJump.threw
  /\ highlighted = {"contatti"} /\ Len(timers) = 1 /\ scrolledTo = "contatti"

\* C18: when the clock advances and due timers run, a highlight that is on
\* is followed by a state with no section highlighted.
C18_HighlightIsTransient == (highlighted # {}) ~> (highlighted = {})

\* Two calls on the same section were made and every timer has run.
C18_Witness ==
  /\ nJumps = 2 /\ lastJump.id = "contatti" /\ scrolledTo = "contatti"
  /\ lastJump.age >= HighlightDelay
  /\ timers = <<>> /\ highlighted = {}

\* C19: a contact-form submit and the settling of its request leave open,
\* clickedProduct, submitting and submitMsg unchanged and open no mail-compose
\* action; the call-to-action click, the modal's close and submit, the
\* settling of a modal-surface request and jumpAndHighlight leave the contact
\* form's pending requests unchanged and show no alert.
C19_SurfacesIndependent ==
  [][/\ (ContactBegin \/ ContactSettle)
          => /\ UNCHANGED <<open, clickedProduct, submitting, submitMsg>>
             /\ mailto' = NoMail
     /\ (ModalBegin \/ closeModal \/ ModalSettle)
          => /\ InFlightOf("contact")' = InFlightOf("contact")
             /\ alertMsg' = NULL
     /\ JumpStep => UNCHANGED <<inflight, alertMsg, last>>]_vars

\* A contact-form request has settled while the modal was open and its own
\* request was pending.
C19_Witness ==
  /\ last.kind = "settle" /\ Surface(last.req) = "contact"
  /\ open /\ submitting /\ InFlightOf("modal") # {}

====
